---- MODULE Spec2Model ----
(***************************************************************************)
(* Chunked upload to a size-capped message transport and range-addressable *)
(* reconstruction, as implemented by                                       *)
(*   backend/app/services/telegram_service.py                              *)
(*       TelegramService.upload_large_file, .stream_file_content           *)
(*   backend/app/routers/telegram_router.py                                *)
(*       upload_media/process_uploads, stream_telegram_media,              *)
(*       range_stream_generator                                            *)
(*                                                                         *)
(* A byte of the source is represented by its 0-based position in the      *)
(* source, so every byte of an object is distinct and a duplicated,        *)
(* missing or reordered byte is visible in the output of a read.           *)
(*                                                                         *)
(* The message transport (pyrogram Client) is an external collaborator:    *)
(* send_document stores a payload under a fresh message id or raises,      *)
(* get_messages finds the message or not, stream_media(msg, offset)        *)
(* delivers the payload from byte `offset` in buffers of its own choosing. *)
(***************************************************************************)
EXTENDS Integers, Sequences, FiniteSets, TLC

(* ---- scaled program constants ---- *)
\* telegram_service.py:252  CHUNK_SIZE = 2000 * 1024 * 1024, scaled down
CHUNK_SIZE == 3
\* telegram_service.py:301  1 MiB read buffer of the copy loop, scaled down
READ_BUF == 2

(* ---- bounds of the model ---- *)
\* source sizes 0..MaxSize are explored, and 5 * CHUNK_SIZE besides
MaxSize == 7
\* largest buffer the transport hands out in one stream_media step
MaxBuf == 2
\* how many stored messages may disappear from the chat
MaxLost == 1
\* the split loop is followed up to this value of chunk_index
MaxChunkIndex == 6
\* MediaFile rows a batch can name
MaxMedia == 2
\* chunks of a split upload in a batch: 2..MaxBatchChunks
MaxBatchChunks == 2
\* object sizes read by concurrent sessions: 0..MaxSharedSize
MaxSharedSize == 6

(* tokens of a Range header "bytes=<first>-<second>" *)
Empty == -1
Junk == -2

None == -1

Min(a, b) == IF a < b THEN a ELSE b
Max(a, b) == IF a > b THEN a ELSE b

\* the bytes of a source of n bytes: byte at offset i is i
SourceBytes(n) == [i \in 1..n |-> i - 1]

SourceSizes == (0..MaxSize) \cup {5 * CHUNK_SIZE}

VARIABLES
  src,             \* content of the file at media.path
  media_size,      \* MediaFile.size recorded by the scanner (0: unknown)
  disk_len,        \* bytes of src still in the file (it may be truncated)
  upc,             \* position of process_uploads / upload_large_file
  file_size,       \* path.stat().st_size measured by upload_large_file
  f_pos,           \* f.tell() of the source handle
  chunk_index,     \* loop counter of the split loop
  temp,            \* content of the temporary part file
  temp_exists,     \* whether the temporary part file is on disk
  chunks_metadata, \* descriptors collected by the split loop
  meta,            \* dictionary returned by upload_large_file
  puts,            \* history: <<offset, length>> of every send_document
  upload_error,    \* what the exception leaving upload_large_file carries
  msgs,            \* transport: payload of message id i
  lost,            \* transport: message ids that no longer exist
  telegram_files,  \* committed TelegramFile rows, each with its chunk rows
  cloud_backed,    \* MediaFile.cloud_backed
  rpc,             \* position of the read session
  range_header,    \* Range header of the request
  start,           \* parsed range start
  end,             \* parsed inclusive range end
  content_length,  \* byte budget of range_stream_generator
  status_code,     \* HTTP status of the response
  r_file_size,     \* file_size computed by stream_telegram_media
  file_data,       \* dictionary handed to stream_file_content
  chunks,          \* sorted chunk list of stream_file_content
  cur,             \* index (1-based) of the chunk being streamed
  blob_offset,     \* offset handed to stream_media for the next chunk
  stream_pos,      \* read position inside the payload being streamed
  bytes_sent,      \* counter of range_stream_generator
  out,             \* bytes the consumer has received
  yields,          \* number of buffers range_stream_generator has yielded
  opened,          \* history: <<chunk position, offset>> of stream opens
  skipped,         \* history: chunk positions skipped as not found
  read_failure,    \* history: a transport call of the session has failed
  stream_open,     \* a stream_media generator is open and not yet closed
  media_list,      \* batch: the media ids handed to each process_uploads
  b_pc,            \* batch: position of each process_uploads task
  b_i,             \* batch: index into media_list of each task
  b_meta,          \* batch: what upload_large_file returned to each task
  sess,            \* batch: the AsyncSession of each task
  sessions,        \* concurrent reads: the local variables of each session
  db               \* batch: the committed rows, as every reader sees them

\* the file and its MediaFile row
evars == <<src, media_size, disk_len, sessions>>
\* what stream_telegram_media fixes for the session
reqvars == <<range_header, start, end, content_length, status_code,
             r_file_size, file_data>>
uvars == <<upc, file_size, f_pos, chunk_index, temp, temp_exists,
           chunks_metadata, meta, puts, upload_error>>
tvars == <<msgs, lost>>
bvars == <<media_list, b_pc, b_i, b_meta, sess, db>>
dvars == <<telegram_files, cloud_backed, bvars>>
rvars == <<rpc, reqvars, chunks, cur, blob_offset, stream_pos, bytes_sent,
           out, yields, opened, skipped, read_failure, stream_open>>
\* everything but the batch
pvars == <<evars, uvars, tvars, telegram_files, cloud_backed, rvars>>
vars == <<evars, uvars, tvars, dvars, rvars>>

NoRange == [present |-> FALSE, first |-> Empty, second |-> Empty]

NoError == [cause |-> "none", chunk_index |-> None]

\* two GET /stream requests for the same media
Sessions == {1, 2}

\* the two background tasks of two POST /upload requests
Tasks == {1, 2}

\* ids of the MediaFile rows
MediaIds == 1..MaxMedia

\* a session without a transaction: nothing added, nothing flushed
NewSession == [active |-> TRUE, files |-> {}, chunks |-> {}, flags |-> {}]

\* no dictionary of upload_large_file is at hand
NoResult == [is_split |-> FALSE, n |-> 0]

\* the locals of a request that has not arrived yet
IdleSession ==
  [pc |-> "idle", start |-> 0, end |-> 0, content_length |-> 0,
   file_data |-> [is_split |-> FALSE, message_id |-> None, chunks |-> <<>>],
   chunks |-> <<>>, cur |-> 0, blob_offset |-> 0, stream_pos |-> 0,
   bytes_sent |-> 0, out |-> <<>>]

EmptyDb == [files |-> {}, chunks |-> {}, cloud |-> {}]

NoMeta == [is_split |-> FALSE, message_id |-> None, chunks |-> <<>>]

Init ==
  /\ \E n \in SourceSizes : src = SourceBytes(n)
  /\ media_size \in {0, Len(src), Len(src) + 1}
  /\ disk_len = Len(src)
  /\ read_failure = FALSE
  /\ stream_open = FALSE
  /\ media_list = [t \in Tasks |-> <<>>]
  /\ b_pc = [t \in Tasks |-> "idle"]
  /\ b_i = [t \in Tasks |-> 1]
  /\ b_meta = [t \in Tasks |-> NoResult]
  /\ sess = [t \in Tasks |-> NewSession]
  /\ db = EmptyDb
  /\ sessions = [s \in Sessions |-> IdleSession]
  /\ upc = "idle"
  /\ file_size = 0
  /\ f_pos = 0
  /\ chunk_index = 0
  /\ temp = <<>>
  /\ temp_exists = FALSE
  /\ chunks_metadata = <<>>
  /\ meta = NoMeta
  /\ puts = <<>>
  /\ upload_error = NoError
  /\ msgs = <<>>
  /\ lost = {}
  /\ telegram_files = <<>>
  /\ cloud_backed = FALSE
  /\ rpc = "idle"
  /\ range_header = NoRange
  /\ start = 0
  /\ end = 0
  /\ content_length = 0
  /\ status_code = 0
  /\ r_file_size = 0
  /\ file_data = NoMeta
  /\ chunks = <<>>
  /\ cur = 0
  /\ blob_offset = 0
  /\ stream_pos = 0
  /\ bytes_sent = 0
  /\ out = <<>>
  /\ yields = 0
  /\ opened = <<>>
  /\ skipped = {}

(***************************************************************************)
(* Upload: process_uploads for one media file, upload_large_file           *)
(***************************************************************************)

\* the file at media.path as it is now
Disk == SubSeq(src, 1, disk_len)

\* f.read(n) at position pos of the source handle
FileRead(pos, n) == SubSeq(Disk, pos + 1, Min(pos + n, Len(Disk)))

\* the copy loop "while bytes_written < limit": the content of the temporary
\* part file once the loop has ended; written is what it holds so far
RECURSIVE FillTemp(_, _, _)
FillTemp(written, pos, limit) ==
  IF Len(written) < limit
  THEN LET read_size == Min(READ_BUF, limit - Len(written))
           buffer == FileRead(pos, read_size)
       IN  IF buffer = <<>>
           THEN written
           ELSE FillTemp(written \o buffer, pos + Len(buffer), limit)
  ELSE written

\* variant: the boundary file_size == CHUNK_SIZE is sent to the split loop
IsSingleFile_strict(size) == size < CHUNK_SIZE

\* "if file_size <= CHUNK_SIZE": the single file case
IsSingleFile(size) == size <= CHUNK_SIZE

\* variant: the window is not capped at CHUNK_SIZE
WindowLimit_uncapped(remaining) == remaining

\* variant: the cap is one byte short of CHUNK_SIZE
WindowLimit_short(remaining) == Min(CHUNK_SIZE - 1, remaining)

\* "limit = min(CHUNK_SIZE, remaining)": length of the next window
WindowLimit(remaining) == Min(CHUNK_SIZE, remaining)

\* path.stat(), then the branch on file_size <= CHUNK_SIZE
UploadStart ==
  /\ upc = "idle"
  /\ file_size' = Len(Disk)
  /\ upc' = IF IsSingleFile(Len(Disk)) THEN "single_put" ELSE "loop"
  /\ f_pos' = 0
  /\ chunk_index' = 0
  /\ UNCHANGED <<evars, temp, temp_exists, chunks_metadata, meta, puts,
                 upload_error, tvars, dvars, rvars>>

\* send_document of the whole file succeeds; the dictionary is returned
SinglePut ==
  /\ upc = "single_put"
  /\ msgs' = Append(msgs, Disk)
  /\ puts' = Append(puts, <<0, Len(Disk)>>)
  /\ meta' = [is_split |-> FALSE, message_id |-> Len(msgs) + 1,
              chunks |-> <<>>]
  /\ upc' = "returned"
  /\ UNCHANGED <<evars, file_size, f_pos, chunk_index, temp, temp_exists,
                 chunks_metadata, upload_error, lost, dvars, rvars>>

\* the exception of send_document leaves upload_large_file as it is
TransportError == [cause |-> "TransportError", chunk_index |-> None]

\* send_document of the whole file raises; process_uploads logs it
SinglePutFail ==
  /\ upc = "single_put"
  /\ upc' = "failed"
  /\ upload_error' = TransportError
  /\ UNCHANGED <<evars, file_size, f_pos, chunk_index, temp, temp_exists,
                 chunks_metadata, meta, puts, tvars, dvars, rvars>>

\* head of "while True": either the break and the return of the split
\* dictionary, or the copy of the next window into the temporary part file
LoopHead ==
  /\ upc = "loop"
  /\ chunk_index < MaxChunkIndex
  /\ LET current_pos == f_pos
         remaining == file_size - current_pos
         limit == WindowLimit(remaining)
     IN  IF remaining <= 0
         THEN /\ meta' = [is_split |-> TRUE, message_id |-> None,
                          chunks |-> chunks_metadata]
              /\ upc' = "returned"
              /\ UNCHANGED <<temp, temp_exists, f_pos>>
         ELSE /\ temp' = FillTemp(<<>>, current_pos, limit)
              /\ temp_exists' = TRUE
              /\ f_pos' = current_pos + Len(temp')
              /\ upc' = "chunk_put"
              /\ UNCHANGED meta
  /\ UNCHANGED <<evars, file_size, chunk_index, chunks_metadata, puts,
                 upload_error, tvars, dvars, rvars>>

\* f.read or temp_f.write raises during the copy (I/O error, disk full):
\* the copy loop is outside the try/finally, the exception leaves
\* upload_large_file and the part file stays with what was written
CopyFail ==
  /\ upc = "loop"
  /\ file_size - f_pos > 0
  /\ LET full == FillTemp(<<>>, f_pos, WindowLimit(file_size - f_pos))
     IN  \E k \in 0..Len(full) :
           /\ temp' = SubSeq(full, 1, k)
           /\ f_pos' = f_pos + k
  /\ temp_exists' = TRUE
  /\ upc' = "failed"
  /\ upload_error' = [cause |-> "OSError", chunk_index |-> None]
  /\ UNCHANGED <<evars, file_size, chunk_index, chunks_metadata, meta, puts,
                 tvars, dvars, rvars>>

\* variant: the descriptor counts the parts from 1, as the caption does
ChunkDescriptor_onebased(index, message_id, bytes_written) ==
  [chunk_index |-> index + 1, message_id |-> message_id,
   size |-> bytes_written]

\* the dictionary appended to chunks_metadata
ChunkDescriptor(index, message_id, bytes_written) ==
  [chunk_index |-> index, message_id |-> message_id, size |-> bytes_written]

\* variant: the loop counter is not advanced
NextChunkIndex_same(i) == i

\* "chunk_index += 1"
NextChunkIndex(i) == i + 1

\* send_document of the part succeeds: descriptor appended, part removed
ChunkPut ==
  /\ upc = "chunk_put"
  /\ msgs' = Append(msgs, temp)
  /\ puts' = Append(puts, <<f_pos - Len(temp), Len(temp)>>)
  /\ chunks_metadata' = Append(chunks_metadata,
        ChunkDescriptor(chunk_index, Len(msgs) + 1, Len(temp)))
  /\ temp' = <<>>
  /\ temp_exists' = FALSE
  /\ chunk_index' = NextChunkIndex(chunk_index)
  /\ upc' = "loop"
  /\ UNCHANGED <<evars, file_size, f_pos, meta, upload_error, lost, dvars,
                 rvars>>

\* variant: the exception is swallowed and the loop goes on
AfterPutFailure_goon == "loop"

\* try/finally without except: the exception leaves upload_large_file
AfterPutFailure == "failed"

\* send_document of the part raises: the finally clause removes the part
ChunkPutFail ==
  /\ upc = "chunk_put"
  /\ temp' = <<>>
  /\ temp_exists' = FALSE
  /\ upc' = AfterPutFailure
  /\ upload_error' = TransportError
  /\ UNCHANGED <<evars, file_size, f_pos, chunk_index, chunks_metadata,
                 meta, puts, tvars, dvars, rvars>>

\* variant: the database update also runs after upload_large_file raised
MayCommit_always(pc) == pc \in {"returned", "failed"}

\* the database update is inside the try block after the await of
\* upload_large_file: it runs only when the upload has returned
MayCommit(pc) == pc = "returned"

\* process_uploads: TelegramFile row, chunk rows, cloud_backed, commit
Commit ==
  /\ MayCommit(upc)
  /\ telegram_files' = Append(telegram_files,
        [is_split |-> meta.is_split, message_id |-> meta.message_id,
         chunks |-> meta.chunks])
  /\ cloud_backed' = TRUE
  /\ upc' = "committed"
  /\ UNCHANGED <<evars, file_size, f_pos, chunk_index, temp, temp_exists,
                 chunks_metadata, meta, puts, upload_error, tvars, bvars,
                 rvars>>

\* the file at media.path is truncated while upload_large_file is at work
TruncateSource ==
  /\ upc \in {"single_put", "loop", "chunk_put"}
  /\ disk_len = Len(src)
  /\ \E n \in 0..(Len(src) - 1) : disk_len' = n
  /\ UNCHANGED <<src, media_size, sessions, uvars, tvars, dvars, rvars>>

\* the writer of the file at media.path puts the missing bytes back
RestoreSource ==
  /\ upc \in {"single_put", "loop", "chunk_put"}
  /\ disk_len < Len(src)
  /\ disk_len' = Len(src)
  /\ UNCHANGED <<src, media_size, sessions, uvars, tvars, dvars, rvars>>

(***************************************************************************)
(* Transport: messages of the chat may be deleted behind the program's     *)
(* back.  A deletion takes effect at the next get_messages, so it is       *)
(* enough to let it happen before the read session starts.                 *)
(***************************************************************************)
LoseMessage ==
  /\ upc \in {"committed", "failed"}
  /\ rpc = "idle"
  /\ Cardinality(lost) < MaxLost
  /\ \E m \in (1..Len(msgs)) \ lost : lost' = lost \cup {m}
  /\ UNCHANGED <<evars, uvars, msgs, dvars, rvars>>

\* get_messages(chat_id, message_ids=m): the message with its media, if any
MessageFound(m) == m \in (1..Len(msgs)) \ lost

(***************************************************************************)
(* Read: stream_telegram_media, range_stream_generator,                    *)
(*       stream_file_content                                               *)
(***************************************************************************)

RECURSIVE SumSizes(_)
SumSizes(cs) == IF cs = <<>> THEN 0 ELSE cs[1].size + SumSizes(Tail(cs))

\* "Determine file size": media.size when truthy, else the chunk sum
FileSizeOf(row) ==
  IF media_size # 0 THEN media_size
  ELSE IF row.is_split THEN SumSizes(row.chunks)
  ELSE 0

Tokens(n) == {Empty, Junk} \cup (0..(n + 1))

\* the Range headers tried against an object of n bytes
Headers(n) ==
  {NoRange}
    \cup [present : {TRUE}, first : Tokens(n), second : Tokens(n)]

\* variant: the end of the range is taken as exclusive
RangeLength_exclusive(s, e) == e - s

\* "content_length = end - start + 1"
RangeLength(s, e) == e - s + 1

\* variant: the default end is the size itself
DefaultEnd_size(fs) == fs

\* "end = file_size - 1"
DefaultEnd(fs) == fs - 1

\* "Parse Range Header": int() of a Junk token raises ValueError, which is
\* swallowed after the assignments made so far
ParseRange(h, fs) ==
  LET dflt == [start |-> 0, end |-> DefaultEnd(fs), content_length |-> fs,
               status_code |-> 200]
  IN  IF ~h.present \/ h.first = Junk THEN dflt
      ELSE LET s == IF h.first # Empty THEN h.first ELSE 0
           IN  IF h.second = Junk THEN [dflt EXCEPT !.start = s]
               ELSE LET e == IF h.second # Empty THEN h.second
                             ELSE DefaultEnd(fs)
                    IN  IF s >= fs
                        THEN [start |-> s, end |-> e, content_length |-> fs,
                              status_code |-> 416]
                        ELSE [start |-> s, end |-> e,
                              content_length |-> RangeLength(s, e),
                              status_code |-> 206]

\* sorted(chunks, key=chunk_index): stable insertion sort
RECURSIVE InsertChunk(_, _)
InsertChunk(c, cs) ==
  IF cs = <<>> THEN <<c>>
  ELSE IF c.chunk_index < cs[1].chunk_index THEN <<c>> \o cs
  ELSE <<cs[1]>> \o InsertChunk(c, Tail(cs))

\* variant: the chunk list is left in descending chunk_index order
RECURSIVE SortChunks_descending(_)
SortChunks_descending(cs) ==
  IF cs = <<>> THEN <<>>
  ELSE LET rest == SortChunks_descending(SubSeq(cs, 1, Len(cs) - 1))
       IN  <<cs[Len(cs)]>> \o rest

RECURSIVE SortChunks(_)
SortChunks(cs) ==
  IF cs = <<>> THEN <<>>
  ELSE InsertChunk(cs[Len(cs)], SortChunks(SubSeq(cs, 1, Len(cs) - 1)))

\* variant: the comparison of the resolver loop is <= instead of <
RECURSIVE ResolveFrom_inclusive(_, _, _, _)
ResolveFrom_inclusive(cs, offset, i, current_offset) ==
  IF i >= Len(cs)
  THEN [start_chunk_index |-> 0, blob_offset |-> 0]
  ELSE IF offset <= current_offset + cs[i + 1].size
  THEN [start_chunk_index |-> i, blob_offset |-> offset - current_offset]
  ELSE ResolveFrom_inclusive(cs, offset, i + 1,
                             current_offset + cs[i + 1].size)

\* "Find which chunk covers the requested offset": the loop over
\* enumerate(chunks) from position i (0-based) with current_offset
RECURSIVE ResolveFrom(_, _, _, _)
ResolveFrom(cs, offset, i, current_offset) ==
  IF i >= Len(cs)
  THEN [start_chunk_index |-> 0, blob_offset |-> 0]
  ELSE IF offset < current_offset + cs[i + 1].size
  THEN [start_chunk_index |-> i, blob_offset |-> offset - current_offset]
  ELSE ResolveFrom(cs, offset, i + 1, current_offset + cs[i + 1].size)

Resolve(cs, offset) == ResolveFrom(cs, offset, 0, 0)

\* chunk[:k] of Python
Slice(chunk, k) ==
  IF k >= 0 THEN SubSeq(chunk, 1, Min(k, Len(chunk)))
  ELSE SubSeq(chunk, 1, Len(chunk) + k)

\* variant: the last buffer is passed on whole instead of truncated
RouterStep_untruncated(chunk, sent, cl) ==
  [yield |-> chunk, sent |-> sent + Len(chunk),
   brk |-> sent + Len(chunk) >= cl]

\* body of the loop of range_stream_generator for one buffer
RouterStep(chunk, sent, cl) ==
  IF sent + Len(chunk) > cl
  THEN [yield |-> Slice(chunk, cl - sent), sent |-> sent, brk |-> TRUE]
  ELSE [yield |-> chunk, sent |-> sent + Len(chunk),
        brk |-> sent + Len(chunk) >= cl]

\* stream_telegram_media up to the StreamingResponse
StreamRequest ==
  /\ rpc = "idle"
  /\ upc \in {"committed", "failed"}
  /\ IF telegram_files = <<>>
     THEN /\ rpc' = "rejected"
          /\ status_code' = 404
          /\ UNCHANGED <<range_header, start, end, content_length,
                         r_file_size, file_data>>
     ELSE LET tg_file == telegram_files[1]
              fs == FileSizeOf(tg_file)
          IN  \E h \in Headers(Len(src)) :
                LET r == ParseRange(h, fs)
                IN  /\ range_header' = h
                    /\ r_file_size' = fs
                    /\ start' = r.start
                    /\ end' = r.end
                    /\ content_length' = r.content_length
                    /\ status_code' = r.status_code
                    /\ rpc' = IF r.status_code = 416 THEN "rejected"
                              ELSE "open"
                    /\ file_data' =
                         [is_split |-> tg_file.is_split,
                          message_id |-> tg_file.message_id,
                          chunks |-> IF tg_file.is_split THEN tg_file.chunks
                                     ELSE <<>>]
  /\ UNCHANGED <<evars, uvars, tvars, dvars, chunks, cur,
                 blob_offset, stream_pos, bytes_sent, out, yields, opened,
                 skipped, read_failure, stream_open>>

\* the exception handler of stream_file_content yields b"" and the
\* generator ends; range_stream_generator passes the empty buffer on
FailInService ==
  LET r == RouterStep(<<>>, bytes_sent, content_length)
  IN  /\ out' = out \o r.yield
      /\ yields' = yields + 1
      /\ bytes_sent' = r.sent
      /\ rpc' = "done"

\* stream_file_content, single file: get_messages and stream_media(offset)
OpenSingle ==
  /\ rpc = "open"
  /\ ~file_data.is_split
  /\ IF file_data.message_id = None \/ ~MessageFound(file_data.message_id)
     THEN /\ FailInService
          /\ read_failure' = (read_failure \/ file_data.message_id # None)
          /\ UNCHANGED <<stream_pos, opened, stream_open>>
     ELSE /\ stream_pos' = start
          /\ opened' = Append(opened, <<0, start>>)
          /\ stream_open' = TRUE
          /\ rpc' = "streaming"
          /\ UNCHANGED <<out, yields, bytes_sent, read_failure>>
  /\ UNCHANGED <<evars, uvars, tvars, dvars, reqvars,
                 chunks, cur, blob_offset, skipped>>

\* stream_file_content, split file: sort the chunks and resolve the offset
OpenSplit ==
  /\ rpc = "open"
  /\ file_data.is_split
  /\ chunks' = SortChunks(file_data.chunks)
  /\ IF chunks' = <<>>
     THEN /\ FailInService
          /\ UNCHANGED <<cur, blob_offset>>
     ELSE LET r == Resolve(chunks', start)
          IN  /\ cur' = r.start_chunk_index
              /\ blob_offset' = r.blob_offset
              /\ rpc' = "chunk_loop"
              /\ UNCHANGED <<out, yields, bytes_sent>>
  /\ UNCHANGED <<evars, uvars, tvars, dvars, reqvars,
                 stream_pos, opened, skipped, read_failure, stream_open>>

\* "for i in range(start_chunk_index, len(chunks))": the loop is over
ChunkLoopEnd ==
  /\ rpc = "chunk_loop"
  /\ cur >= Len(chunks)
  /\ rpc' = "done"
  /\ UNCHANGED <<evars, uvars, tvars, dvars, reqvars,
                 chunks, cur, blob_offset, stream_pos, bytes_sent, out,
                 yields, opened, skipped, read_failure, stream_open>>

\* get_messages of chunk i finds nothing: logged, "continue"
ChunkMissing ==
  /\ rpc = "chunk_loop"
  /\ cur < Len(chunks)
  /\ ~MessageFound(chunks[cur + 1].message_id)
  /\ skipped' = skipped \cup {cur}
  /\ cur' = cur + 1
  /\ read_failure' = TRUE
  /\ UNCHANGED <<evars, uvars, tvars, dvars, rpc, reqvars,
                 chunks, blob_offset, stream_pos, bytes_sent, out, yields,
                 opened, stream_open>>

\* get_messages of chunk i, then stream_media(msg, offset=blob_offset)
ChunkOpen ==
  /\ rpc = "chunk_loop"
  /\ cur < Len(chunks)
  /\ MessageFound(chunks[cur + 1].message_id)
  /\ stream_pos' = blob_offset
  /\ opened' = Append(opened, <<cur, blob_offset>>)
  /\ stream_open' = TRUE
  /\ rpc' = "streaming"
  /\ UNCHANGED <<evars, uvars, tvars, dvars, reqvars, chunks, cur,
                 blob_offset, bytes_sent, out, yields, skipped,
                 read_failure>>

\* the payload stream_media is reading
Payload ==
  IF file_data.is_split THEN msgs[chunks[cur + 1].message_id]
  ELSE msgs[file_data.message_id]

\* stream_media delivers the next buffer; stream_file_content yields it and
\* range_stream_generator passes it on, truncated at content_length
StreamData ==
  /\ rpc = "streaming"
  /\ stream_pos < Len(Payload)
  /\ \E k \in 1..Min(MaxBuf, Len(Payload) - stream_pos) :
       LET data == SubSeq(Payload, stream_pos + 1, stream_pos + k)
           r == RouterStep(data, bytes_sent, content_length)
       IN  /\ out' = out \o r.yield
           /\ yields' = yields + 1
           /\ bytes_sent' = r.sent
           /\ stream_pos' = stream_pos + k
           /\ rpc' = IF r.brk THEN "done" ELSE "streaming"
  /\ UNCHANGED <<evars, uvars, tvars, dvars, reqvars, chunks, cur,
                 blob_offset, opened, skipped, read_failure, stream_open>>

\* variant: the relative offset is not reset for the subsequent chunks
BlobOffsetAfterChunk_kept(b) == b

\* "blob_offset = 0": subsequent chunks start at 0
BlobOffsetAfterChunk(b) == 0

\* variant: the loop stays at the chunk it has just streamed
NextChunk_same(i) == i

\* "for i in range(start_chunk_index, len(chunks))": the next i
NextChunk(i) == i + 1

\* stream_media is exhausted: "blob_offset = 0" and the next chunk, or the
\* end of the single file
StreamEnd ==
  /\ rpc = "streaming"
  /\ stream_pos >= Len(Payload)
  /\ IF file_data.is_split
     THEN /\ blob_offset' = BlobOffsetAfterChunk(blob_offset)
          /\ cur' = NextChunk(cur)
          /\ rpc' = "chunk_loop"
     ELSE /\ rpc' = "done"
          /\ UNCHANGED <<cur, blob_offset>>
  /\ stream_open' = FALSE
  /\ UNCHANGED <<evars, uvars, tvars, dvars, reqvars,
                 chunks, stream_pos, bytes_sent, out, yields, opened,
                 skipped, read_failure>>

\* get_messages raises: the handler of stream_file_content takes over
GetMessagesFail ==
  /\ \/ rpc = "open" /\ ~file_data.is_split /\ file_data.message_id # None
     \/ rpc = "chunk_loop" /\ cur < Len(chunks)
  /\ FailInService
  /\ read_failure' = TRUE
  /\ UNCHANGED <<evars, uvars, tvars, dvars, reqvars, chunks, cur,
                 blob_offset, stream_pos, opened, skipped, stream_open>>

\* stream_media raises between two buffers: its generator is finished, the
\* handler of stream_file_content takes over
StreamFail ==
  /\ rpc = "streaming"
  /\ FailInService
  /\ read_failure' = TRUE
  /\ stream_open' = FALSE
  /\ UNCHANGED <<evars, uvars, tvars, dvars, reqvars, chunks, cur,
                 blob_offset, stream_pos, opened, skipped>>

\* the consumer stops iterating range_stream_generator after a buffer: the
\* generators stay suspended at their yield unless the cancellation is
\* delivered inside stream_media and unwinds them
Abandon ==
  /\ rpc = "streaming"
  /\ yields >= 1
  /\ rpc' = "abandoned"
  /\ \E unwound \in BOOLEAN : stream_open' = (stream_open /\ ~unwound)
  /\ UNCHANGED <<evars, uvars, tvars, dvars, reqvars, chunks, cur,
                 blob_offset, stream_pos, bytes_sent, out, yields, opened,
                 skipped, read_failure>>

\* the suspended stream_file_content generator is finalized by the event
\* loop's asynchronous-generator hook, which closes stream_media
FinalizeGenerator ==
  /\ rpc \in {"done", "abandoned"}
  /\ stream_open
  /\ stream_open' = FALSE
  /\ UNCHANGED <<evars, uvars, tvars, dvars, rpc, reqvars, chunks, cur,
                 blob_offset, stream_pos, bytes_sent, out, yields, opened,
                 skipped, read_failure>>

(***************************************************************************)
(* Batch: upload_media queues process_uploads, which works through its     *)
(* media list with one AsyncSession.  upload_large_file is taken by its    *)
(* outcome.  A session holds the rows it has flushed in its open           *)
(* transaction; a failed flush rolls the transaction back and leaves the   *)
(* session unusable until rollback(), which process_uploads never calls.   *)
(***************************************************************************)

\* the rows of MediaFile selected by "id IN media_ids": each row once, as
\* SQLite walks the primary key, in ascending id order
MediaLists ==
  {l \in UNION {[1..k -> MediaIds] : k \in 1..MaxMedia} :
     \A i, j \in DOMAIN l : i < j => l[i] < l[j]}

\* what upload_large_file can return: single, or split into n chunks
UploadResults ==
  {[is_split |-> FALSE, n |-> 0]}
    \cup {[is_split |-> TRUE, n |-> k] : k \in 2..MaxBatchChunks}

\* "for media in media_list": the media at hand
Media(t) == media_list[t][b_i[t]]

\* the session after a failed flush or commit
RolledBack == [NewSession EXCEPT !.active = FALSE]

\* the next turn of "for media in media_list", after the commit as after
\* "except Exception: ... # Continue to next file"; meta is dead by then
Continue(t) ==
  /\ b_i' = [b_i EXCEPT ![t] = b_i[t] + 1]
  /\ b_pc' = [b_pc EXCEPT ![t] = "next"]
  /\ b_meta' = [b_meta EXCEPT ![t] = NoResult]

\* POST /upload: the media rows are selected and the task is queued
UploadMedia(t) ==
  /\ b_pc[t] = "idle"
  /\ \E l \in MediaLists : media_list' = [media_list EXCEPT ![t] = l]
  /\ b_pc' = [b_pc EXCEPT ![t] = "next"]
  /\ UNCHANGED <<pvars, b_i, b_meta, sess, db>>

\* upload_large_file returns its dictionary
BatchUploadOk(t) ==
  /\ b_pc[t] = "next"
  /\ b_i[t] <= Len(media_list[t])
  /\ \E m \in UploadResults : b_meta' = [b_meta EXCEPT ![t] = m]
  /\ b_pc' = [b_pc EXCEPT ![t] = "add"]
  /\ UNCHANGED <<pvars, media_list, b_i, sess, db>>

\* upload_large_file raises
BatchUploadFail(t) ==
  /\ b_pc[t] = "next"
  /\ b_i[t] <= Len(media_list[t])
  /\ Continue(t)
  /\ UNCHANGED <<pvars, media_list, sess, db>>

\* the list is done: "async with" closes the session, which rolls back
BatchEnd(t) ==
  /\ b_pc[t] = "next"
  /\ b_i[t] > Len(media_list[t])
  /\ sess' = [sess EXCEPT ![t] = NewSession]
  /\ b_pc' = [b_pc EXCEPT ![t] = "finished"]
  /\ UNCHANGED <<pvars, media_list, b_i, b_meta, db>>

\* another session holds the write lock of the database
OtherWriter(t) == \E u \in Tasks \ {t} : sess[u].files # {}

\* the rowid SQLite gives to the next TelegramFile row
NewId ==
  LET ids == {r.id : r \in db.files \cup UNION {sess[u].files : u \in Tasks}}
  IN  IF ids = {} THEN 1
      ELSE 1 + CHOOSE x \in ids : \A y \in ids : y <= x

\* variant: telegram_files.media_id carries no UNIQUE constraint
UniqueMediaId_unchecked(t, m) == TRUE

\* media_id is UNIQUE: no row of the table, as this transaction sees it,
\* has the media_id
UniqueMediaId(t, m) ==
  \A r \in db.files \cup sess[t].files : r.media_id # m

\* session.add(tg_file); await session.flush(): the INSERT succeeds
FlushFile(t) ==
  /\ b_pc[t] = "add"
  /\ sess[t].active
  /\ ~OtherWriter(t)
  /\ UniqueMediaId(t, Media(t))
  /\ sess' = [sess EXCEPT ![t].files = @ \cup
                 {[id |-> NewId, media_id |-> Media(t),
                   is_split |-> b_meta[t].is_split, n |-> b_meta[t].n]}]
  /\ b_pc' = [b_pc EXCEPT ![t] = "chunks"]
  /\ UNCHANGED <<pvars, media_list, b_i, b_meta, db>>

\* the flush raises (IntegrityError, database is locked, or the session
\* already needs a rollback): the transaction is rolled back
FlushFileFail(t) ==
  /\ b_pc[t] = "add"
  /\ sess' = [sess EXCEPT ![t] = RolledBack]
  /\ Continue(t)
  /\ UNCHANGED <<pvars, media_list, db>>

\* the TelegramFile row this task has flushed for the media at hand
TgFile(t) == CHOOSE r \in sess[t].files : r.media_id = Media(t)

\* "if meta['is_split']: for chunk in meta['chunks']: session.add(c)"
AddChunks(t) ==
  /\ b_pc[t] = "chunks"
  /\ sess' = [sess EXCEPT ![t].chunks = @ \cup
                 {[telegram_file_id |-> TgFile(t).id, chunk_index |-> k] :
                    k \in 0..(b_meta[t].n - 1)}]
  /\ b_pc' = [b_pc EXCEPT ![t] = "get"]
  /\ UNCHANGED <<pvars, media_list, b_i, b_meta, db>>

\* m = await session.get(MediaFile, media.id); m.cloud_backed = True
GetMedia(t) ==
  /\ b_pc[t] = "get"
  /\ sess' = [sess EXCEPT ![t].flags = @ \cup {Media(t)}]
  /\ b_pc' = [b_pc EXCEPT ![t] = "commit"]
  /\ UNCHANGED <<pvars, media_list, b_i, b_meta, db>>

\* session.get raises: either in its autoflush of the chunk rows, which
\* rolls the transaction back, or in its SELECT, which leaves the session
\* and the rows flushed so far as they are
GetMediaFail(t) ==
  /\ b_pc[t] = "get"
  /\ \E in_flush \in BOOLEAN :
       sess' = IF in_flush THEN [sess EXCEPT ![t] = RolledBack] ELSE sess
  /\ Continue(t)
  /\ UNCHANGED <<pvars, media_list, db>>

\* await session.commit(): everything the transaction holds is published
BatchCommit(t) ==
  /\ b_pc[t] = "commit"
  /\ db' = [files |-> db.files \cup sess[t].files,
            chunks |-> db.chunks \cup sess[t].chunks,
            cloud |-> db.cloud \cup sess[t].flags]
  /\ sess' = [sess EXCEPT ![t] = NewSession]
  /\ Continue(t)
  /\ UNCHANGED <<pvars, media_list>>

\* session.commit() raises: nothing of the transaction is published
BatchCommitFail(t) ==
  /\ b_pc[t] = "commit"
  /\ sess' = [sess EXCEPT ![t] = RolledBack]
  /\ Continue(t)
  /\ UNCHANGED <<pvars, media_list, db>>

(***************************************************************************)
(* Concurrent reads: several requests for the same media.  Each request    *)
(* has its own locals in stream_telegram_media, range_stream_generator and *)
(* stream_file_content; the rows and the messages are shared.              *)
(***************************************************************************)

\* everything but the concurrent sessions
nsvars == <<src, media_size, disk_len, uvars, tvars, dvars, rvars>>

\* the Range headers the concurrent requests carry
SharedHeaders ==
  {NoRange}
    \cup [present : {TRUE}, first : 0..(Len(src) - 1),
          second : 0..(Len(src) - 1)]

\* the payload session s is streaming
SessionPayload(s) ==
  LET x == sessions[s]
  IN  IF x.file_data.is_split THEN msgs[x.chunks[x.cur + 1].message_id]
      ELSE msgs[x.file_data.message_id]

\* variant: bytes_sent is one counter for all sessions
SentBy_shared(s) == sessions[1].bytes_sent + sessions[2].bytes_sent

\* "bytes_sent = 0" is a local of the generator of each request
SentBy(s) == sessions[s].bytes_sent

\* stream_telegram_media for request s, up to the StreamingResponse
SessionRequest(s) ==
  /\ sessions[s].pc = "idle"
  /\ upc = "committed"
  /\ LET tg_file == telegram_files[1]
         fs == FileSizeOf(tg_file)
     IN  \E h \in SharedHeaders :
           LET r == ParseRange(h, fs)
           IN  sessions' = [sessions EXCEPT ![s] =
                 [@ EXCEPT
                    !.pc = IF r.status_code = 416 THEN "rejected" ELSE "open",
                    !.start = r.start,
                    !.end = r.end,
                    !.content_length = r.content_length,
                    !.file_data =
                       [is_split |-> tg_file.is_split,
                        message_id |-> tg_file.message_id,
                        chunks |-> IF tg_file.is_split THEN tg_file.chunks
                                   ELSE <<>>]]]
  /\ UNCHANGED nsvars

\* stream_file_content of request s: the single message is opened, or the
\* chunks are sorted into a new list and the offset is resolved
SessionOpen(s) ==
  /\ sessions[s].pc = "open"
  /\ LET x == sessions[s]
     IN  IF ~x.file_data.is_split
         THEN IF MessageFound(x.file_data.message_id)
              THEN sessions' = [sessions EXCEPT ![s] =
                     [@ EXCEPT !.pc = "streaming", !.stream_pos = x.start]]
              ELSE sessions' = [sessions EXCEPT ![s] =
                     [@ EXCEPT !.pc = "done"]]
         ELSE LET cs == SortChunks(x.file_data.chunks)
                  r == Resolve(cs, x.start)
              IN  sessions' = [sessions EXCEPT ![s] =
                    [@ EXCEPT !.pc = "chunk_loop",
                              !.chunks = cs,
                              !.cur = r.start_chunk_index,
                              !.blob_offset = r.blob_offset]]
  /\ UNCHANGED nsvars

\* the chunk loop of request s: its end, a missing message, or the open of
\* the stream of the chunk
SessionChunk(s) ==
  /\ sessions[s].pc = "chunk_loop"
  /\ LET x == sessions[s]
     IN  IF x.cur >= Len(x.chunks)
         THEN sessions' = [sessions EXCEPT ![s] = [@ EXCEPT !.pc = "done"]]
         ELSE IF ~MessageFound(x.chunks[x.cur + 1].message_id)
         THEN sessions' = [sessions EXCEPT ![s] =
                [@ EXCEPT !.cur = x.cur + 1]]
         ELSE sessions' = [sessions EXCEPT ![s] =
                [@ EXCEPT !.pc = "streaming",
                          !.stream_pos = x.blob_offset]]
  /\ UNCHANGED nsvars

\* stream_media delivers a buffer to request s; its generator passes it on
SessionData(s) ==
  /\ sessions[s].pc = "streaming"
  /\ sessions[s].stream_pos < Len(SessionPayload(s))
  /\ LET x == sessions[s]
     IN  \E k \in 1..Min(MaxBuf, Len(SessionPayload(s)) - x.stream_pos) :
           LET data == SubSeq(SessionPayload(s), x.stream_pos + 1,
                              x.stream_pos + k)
               r == RouterStep(data, SentBy(s), x.content_length)
           IN  sessions' = [sessions EXCEPT ![s] =
                 [@ EXCEPT !.out = x.out \o r.yield,
                           !.bytes_sent = r.sent,
                           !.stream_pos = x.stream_pos + k,
                           !.pc = IF r.brk THEN "done" ELSE "streaming"]]
  /\ UNCHANGED nsvars

\* stream_media of request s is exhausted
SessionEnd(s) ==
  /\ sessions[s].pc = "streaming"
  /\ sessions[s].stream_pos >= Len(SessionPayload(s))
  /\ LET x == sessions[s]
     IN  IF x.file_data.is_split
         THEN sessions' = [sessions EXCEPT ![s] =
                [@ EXCEPT !.pc = "chunk_loop",
                          !.blob_offset = BlobOffsetAfterChunk(x.blob_offset),
                          !.cur = NextChunk(x.cur)]]
         ELSE sessions' = [sessions EXCEPT ![s] = [@ EXCEPT !.pc = "done"]]
  /\ UNCHANGED nsvars

Next ==
  \/ UploadStart
  \/ SinglePut
  \/ SinglePutFail
  \/ LoopHead
  \/ ChunkPut
  \/ ChunkPutFail
  \/ Commit
  \/ LoseMessage
  \/ StreamRequest
  \/ OpenSingle
  \/ OpenSplit
  \/ ChunkLoopEnd
  \/ ChunkMissing
  \/ ChunkOpen
  \/ StreamData
  \/ StreamEnd

Spec == Init /\ [][Next]_vars

\* the same program with a transport whose calls may raise during a read
\* session and a consumer that may abandon the session
NextRead ==
  \/ UploadStart
  \/ SinglePut
  \/ SinglePutFail
  \/ LoopHead
  \/ ChunkPut
  \/ ChunkPutFail
  \/ Commit
  \/ LoseMessage
  \/ StreamRequest
  \/ OpenSingle
  \/ OpenSplit
  \/ ChunkLoopEnd
  \/ ChunkMissing
  \/ ChunkOpen
  \/ StreamData
  \/ StreamEnd
  \/ GetMessagesFail
  \/ StreamFail
  \/ Abandon
  \/ FinalizeGenerator

SpecRead == Init /\ [][NextRead]_vars

\* one committed object of at most MaxSharedSize bytes with the size the
\* scanner recorded, and two read sessions at a time
InitShared ==
  /\ Init
  /\ Len(src) <= MaxSharedSize
  /\ media_size = Len(src)

NextShared ==
  \/ UploadStart
  \/ SinglePut
  \/ LoopHead
  \/ ChunkPut
  \/ Commit
  \/ \E s \in Sessions : SessionRequest(s)
  \/ \E s \in Sessions : SessionOpen(s)
  \/ \E s \in Sessions : SessionChunk(s)
  \/ \E s \in Sessions : SessionData(s)
  \/ \E s \in Sessions : SessionEnd(s)

SpecShared == InitShared /\ [][NextShared]_vars

\* the batch alone: no file content, two tasks
InitBatch ==
  /\ Init
  /\ src = <<>>
  /\ media_size = 0

NextBatch ==
  \/ \E t \in Tasks : UploadMedia(t)
  \/ \E t \in Tasks : BatchUploadOk(t)
  \/ \E t \in Tasks : BatchUploadFail(t)
  \/ \E t \in Tasks : BatchEnd(t)
  \/ \E t \in Tasks : FlushFile(t)
  \/ \E t \in Tasks : FlushFileFail(t)
  \/ \E t \in Tasks : AddChunks(t)
  \/ \E t \in Tasks : GetMedia(t)
  \/ \E t \in Tasks : GetMediaFail(t)
  \/ \E t \in Tasks : BatchCommit(t)
  \/ \E t \in Tasks : BatchCommitFail(t)

SpecBatch == InitBatch /\ [][NextBatch]_vars

\* the upload of a source that may be truncated and restored meanwhile,
\* and whose copy into the part file may fail
NextShort ==
  \/ UploadStart
  \/ SinglePut
  \/ SinglePutFail
  \/ LoopHead
  \/ ChunkPut
  \/ ChunkPutFail
  \/ Commit
  \/ TruncateSource
  \/ RestoreSource
  \/ CopyFail

SpecShort == Init /\ [][NextShort]_vars

(***************************************************************************)
(* Properties                                                              *)
(***************************************************************************)

\* upload_large_file has returned its dictionary
Uploaded == upc \in {"returned", "committed"}

\* a read session has been accepted by stream_telegram_media
InSession == rpc \in {"open", "chunk_loop", "streaming", "done"}

\* size of what the manifest handed to the session describes
ObjectSize ==
  IF file_data.is_split THEN SumSizes(file_data.chunks)
  ELSE Len(msgs[file_data.message_id])

\* start offset of chunk position i (0-based) in the logical object
CumulativeStart(cs, i) == SumSizes(SubSeq(cs, 1, i))

\* the session reads a range that lies inside the object
ValidRange ==
  /\ InSession
  /\ 0 <= start
  /\ start <= end
  /\ end < ObjectSize

\* the request carries "Range: bytes=<first>-<second>" with numbers
NumericRange ==
  /\ range_header.present
  /\ range_header.first >= 0
  /\ range_header.second >= 0

\* bytes start..end of the source
SourceRange(a, b) == SubSeq(src, a + 1, b + 1)

\* C1: a source of N bytes that was uploaded and committed, read back over
\* the full range [0, N-1] from a transport that still holds every message,
\* gives exactly the N source bytes in order once the session has ended.
C1_RoundTrip ==
  (/\ rpc = "done"
   /\ upc = "committed"
   /\ lost = {}
   /\ start = 0
   /\ content_length = Len(src))
  => out = src

C1_Witness ==
  /\ rpc = "done"
  /\ upc = "committed"
  /\ lost = {}
  /\ start = 0
  /\ content_length = Len(src)
  /\ Len(src) = 5 * CHUNK_SIZE
  /\ file_data.is_split
  /\ out = src

\* C2: the windows handed to send_document are contiguous from 0, each at
\* most CHUNK_SIZE long, and once upload has returned they sum to file_size.
C2_WindowsPartition ==
  /\ \A i \in 1..Len(puts) :
       /\ puts[i][2] <= CHUNK_SIZE
       /\ puts[i][1] = (IF i = 1 THEN 0 ELSE puts[i - 1][1] + puts[i - 1][2])
  /\ Uploaded =>
       (IF puts = <<>> THEN 0
        ELSE puts[Len(puts)][1] + puts[Len(puts)][2]) = file_size

C2_Witness ==
  /\ Uploaded
  /\ Len(puts) = 3
  /\ puts[3] = <<2 * CHUNK_SIZE, 1>>

\* ceil(a / b) for b > 0
CeilDiv(a, b) == (a + b - 1) \div b

\* C3: for file_size > CHUNK_SIZE the returned upload made exactly
\* ceil(file_size / CHUNK_SIZE) puts, all of CHUNK_SIZE bytes except the
\* last, which has file_size mod CHUNK_SIZE bytes, or CHUNK_SIZE when that
\* remainder is 0.
C3_WindowCount ==
  (Uploaded /\ file_size > CHUNK_SIZE) =>
    /\ Len(puts) = CeilDiv(file_size, CHUNK_SIZE)
    /\ \A i \in 1..(Len(puts) - 1) : puts[i][2] = CHUNK_SIZE
    /\ puts[Len(puts)][2] =
         (IF file_size % CHUNK_SIZE = 0 THEN CHUNK_SIZE
          ELSE file_size % CHUNK_SIZE)

C3_Witness ==
  /\ Uploaded
  /\ file_size = 5 * CHUNK_SIZE
  /\ Len(puts) = 5
  /\ puts[5] = <<4 * CHUNK_SIZE, CHUNK_SIZE>>

\* C4: for 0 < file_size <= CHUNK_SIZE the returned upload made exactly one
\* put, of the whole file, and its dictionary is not split, names that one
\* message and has no chunk descriptors; a split dictionary is returned only
\* for file_size > CHUNK_SIZE.
C4_SingleFile ==
  Uploaded =>
    /\ (0 < file_size /\ file_size <= CHUNK_SIZE) =>
         /\ puts = <<(<<0, file_size>>)>>
         /\ msgs = <<src>>
         /\ ~meta.is_split
         /\ meta.message_id = 1
         /\ meta.chunks = <<>>
    /\ meta.is_split => file_size > CHUNK_SIZE

C4_Witness ==
  /\ Uploaded
  /\ file_size = CHUNK_SIZE
  /\ ~meta.is_split
  /\ Len(msgs) = 1

\* the resolver step has just run: no chunk has been looked up yet
JustResolved ==
  /\ rpc = "chunk_loop"
  /\ opened = <<>>
  /\ skipped = {}

\* C5: for an offset inside a split object the resolver step selects the
\* chunk whose interval [cumulative start, cumulative start + size) holds
\* the offset, with the offset relative to that chunk's start; no other
\* chunk's interval holds it.
C5_Resolve ==
  (JustResolved /\ 0 <= start /\ start < SumSizes(chunks)) =>
    /\ cur \in 0..(Len(chunks) - 1)
    /\ CumulativeStart(chunks, cur) <= start
    /\ start < CumulativeStart(chunks, cur) + chunks[cur + 1].size
    /\ blob_offset = start - CumulativeStart(chunks, cur)
    /\ \A i \in 0..(Len(chunks) - 1) :
         (/\ CumulativeStart(chunks, i) <= start
          /\ start < CumulativeStart(chunks, i) + chunks[i + 1].size)
         => i = cur
    /\ start = SumSizes(chunks) - 1 =>
         /\ cur = Len(chunks) - 1
         /\ blob_offset = chunks[Len(chunks)].size - 1
    /\ (\E i \in 0..(Len(chunks) - 1) : start = CumulativeStart(chunks, i))
         => blob_offset = 0

C5_Witness ==
  /\ JustResolved
  /\ Len(chunks) = 3
  /\ start = SumSizes(chunks) - 1
  /\ cur = 2
  /\ blob_offset = 0

\* C6: a read of a split object whose start offset is negative or at or
\* beyond the sum of its chunk sizes fails as out of range: the resolver
\* produces no chunk for it, no transport stream is opened and no byte is
\* yielded.
C6_OutOfRangeRejected ==
  (/\ InSession
   /\ file_data.is_split
   /\ (start < 0 \/ start >= SumSizes(file_data.chunks)))
  => (rpc = "open" /\ opened = <<>> /\ out = <<>>)

\* C7: in a session over a range inside the object the consumer never holds
\* more than end - start + 1 bytes, a session that has ended on a complete
\* transport has delivered exactly that many, and once that many have been
\* delivered no further buffer is yielded.
C7_NeverBeyondEnd ==
  /\ [](ValidRange => Len(out) <= end - start + 1)
  /\ []((ValidRange /\ rpc = "done" /\ lost = {})
          => Len(out) = end - start + 1)
  /\ [][(ValidRange /\ Len(out) >= end - start + 1) => yields' = yields]_vars

C7_Witness ==
  /\ ValidRange
  /\ rpc = "done"
  /\ file_data.is_split
  /\ status_code = 206
  /\ Len(out) = end - start + 1
  /\ bytes_sent < content_length
  /\ stream_pos < Len(Payload)
  /\ end < ObjectSize - 1

\* C8: a session on a split object whose range lies inside the object and
\* whose transport holds every chunk opens the chunk that holds start at
\* the resolved intra-chunk offset and then the following chunks in order,
\* each at offset 0; what it has yielded is at every moment a run of source
\* bytes beginning at start, and at the end it is exactly bytes start..end.
C8_SeamlessChunks ==
  (ValidRange /\ file_data.is_split /\ lost = {}) =>
    /\ \A j \in 1..Len(opened) :
         IF j = 1
         THEN /\ opened[1][1] \in 0..(Len(chunks) - 1)
              /\ CumulativeStart(chunks, opened[1][1]) + opened[1][2] = start
              /\ opened[1][2] < chunks[opened[1][1] + 1].size
         ELSE opened[j] = <<opened[j - 1][1] + 1, 0>>
    /\ out = SourceRange(start, start + Len(out) - 1)
    /\ rpc = "done" => out = SourceRange(start, end)

C8_Witness ==
  /\ ValidRange
  /\ file_data.is_split
  /\ lost = {}
  /\ rpc = "done"
  /\ start = CHUNK_SIZE
  /\ Len(opened) = 3
  /\ opened[1] = <<1, 0>>
  /\ out = SourceRange(start, end)

\* C9: a request for an invalid range (start > end, end >= size or
\* start >= size, negative start) of an object whose size the router has
\* right is answered with an invalid-range error and so without any body
\* byte: the consumer never receives a byte for it.
C9_InvalidRangeRejected ==
  (/\ rpc # "idle"
   /\ NumericRange
   /\ r_file_size = ObjectSize
   /\ (start > end \/ end >= r_file_size \/ start >= r_file_size
         \/ start < 0))
  => out = <<>>

\* C10: when the message of a chunk is missing, so that the transport
\* delivers fewer bytes than the chunk's declared size, the session does not
\* go on to a later chunk.
C10_NoContinueAfterMissing ==
  \A i \in skipped : \A j \in 1..Len(opened) : opened[j][1] < i

\* C11: when a transport call of a read session fails (get_messages or
\* stream_media raises, or a message is not found), the session does not
\* end as a normally completed stream: the consumer is given an error.
C11_ReadFailureSurfaced ==
  (/\ read_failure
   /\ lost = {}
   /\ ~range_header.present
   /\ r_file_size = Len(src)
   /\ out # <<>>)
  => rpc # "done"

\* an upload during which a transfer has failed
UploadFailed == upload_error # NoError

\* C12: once the transfer of a chunk (or of the whole file) has failed, no
\* TelegramFile row and no chunk row of the object is committed, the object
\* is not marked cloud_backed, and a reader is answered with 404.
C12_FailedUploadInvisible ==
  UploadFailed =>
    /\ telegram_files = <<>>
    /\ ~cloud_backed
    /\ rpc \in {"idle", "rejected"}

\* the third chunk of a split upload failed and a reader has asked since
C12_Witness ==
  /\ UploadFailed
  /\ file_size > CHUNK_SIZE
  /\ Len(puts) = 2
  /\ rpc = "rejected"
  /\ status_code = 404

\* C15: when the transfer of chunk k of a split upload fails, the error
\* that leaves the upload carries the index k of the failing chunk.
C15_ErrorNamesChunk ==
  (UploadFailed /\ file_size > CHUNK_SIZE)
  => upload_error.chunk_index = chunk_index

\* C16: a session that has finished or has been abandoned by its consumer
\* has no transport stream open.
C16_StreamReleased ==
  (/\ rpc \in {"done", "abandoned"}
   /\ lost = {}
   /\ r_file_size = Len(src)
   /\ NumericRange
   /\ start <= end
   /\ end < Len(src) - 1)
  => ~stream_open

\* C17: a range read whose start equals its inclusive end, at a valid
\* offset of a committed object whose messages all exist, yields exactly
\* one byte, the byte at that offset, once the session has ended.
C17_OneByteRange ==
  (/\ rpc = "done"
   /\ upc = "committed"
   /\ lost = {}
   /\ ValidRange
   /\ start = end)
  => out = <<src[start + 1]>>

\* the first byte of the second chunk of a split object, asked for alone
C17_Witness ==
  /\ rpc = "done"
  /\ file_data.is_split
  /\ range_header = [present |-> TRUE, first |-> CHUNK_SIZE,
                     second |-> CHUNK_SIZE]
  /\ start = end
  /\ opened = <<<<1, 0>>>>
  /\ out = <<CHUNK_SIZE>>

\* C18: the total size a read session of a stored, non-empty object works
\* with is the size of the stored payload: the sum of the chunk sizes of a
\* split object, the size of the single payload otherwise.
C18_ReadSizeIsStoredSize ==
  (InSession /\ lost = {} /\ ObjectSize > 0 /\ media_size > 0)
  => r_file_size = ObjectSize

\* C19: every chunk descriptor of a returned manifest has a size above 0
\* and at most CHUNK_SIZE, equal to the number of bytes of the payload sent
\* for the chunk, also when the source was short during the upload.
C19_ChunkSizes ==
  (Uploaded /\ meta.is_split) =>
    \A i \in 1..Len(meta.chunks) :
      /\ 0 < meta.chunks[i].size
      /\ meta.chunks[i].size <= CHUNK_SIZE
      /\ meta.chunks[i].size = Len(msgs[meta.chunks[i].message_id])

\* the i-th window (1-based) of a source of n bytes
Window(i, n) == SubSeq(src, (i - 1) * CHUNK_SIZE + 1, Min(i * CHUNK_SIZE, n))

\* C20: in the manifest of a split upload the descriptors are in upload
\* order with chunk_index 0, 1, ..., n-1, and descriptor i describes the
\* i-th window of the source, so that the chunks cover [0, total size).
C20_DenseOrderedChunks ==
  (Uploaded /\ meta.is_split) =>
    /\ \A i \in 1..Len(meta.chunks) :
         /\ meta.chunks[i].chunk_index = i - 1
         /\ msgs[meta.chunks[i].message_id] = Window(i, Len(src))
         /\ meta.chunks[i].size = Len(Window(i, Len(src)))
    /\ SumSizes(meta.chunks) = Len(src)

\* a manifest of three chunks, the last one shorter
C20_Witness ==
  /\ Uploaded
  /\ meta.is_split
  /\ Len(src) = 2 * CHUNK_SIZE + 1
  /\ Len(meta.chunks) = 3
  /\ meta.chunks[3].chunk_index = 2
  /\ meta.chunks[3].size = 1

\* the chunk indexes committed for a TelegramFile row
ChunkIndexes(r) ==
  {c.chunk_index : c \in {c \in db.chunks : c.telegram_file_id = r.id}}

\* C13: every TelegramFile row a reader can see comes with the complete
\* chunk rows of its upload and with cloud_backed set on its media: the
\* three become visible together, also after an earlier media of the batch
\* failed part-way through its database updates.
C13_NoPartialManifest ==
  \A r \in db.files :
    /\ r.is_split => ChunkIndexes(r) = 0..(r.n - 1)
    /\ r.media_id \in db.cloud

\* C14: there is at most one committed TelegramFile row per media_id, and
\* every committed chunk row belongs to a committed TelegramFile row, also
\* when two requests name the same media.
C14_OneManifestPerMedia ==
  /\ \A r1, r2 \in db.files : r1.media_id = r2.media_id => r1 = r2
  /\ \A c \in db.chunks :
       \E r \in db.files :
         /\ r.id = c.telegram_file_id
         /\ r.is_split
         /\ c.chunk_index < r.n

\* both tasks were given media 1 and are through with it, and a split
\* manifest is committed for it
C14_Witness ==
  /\ \A t \in Tasks : b_pc[t] = "finished" /\ media_list[t] = <<1>>
  /\ \E r \in db.files : r.media_id = 1 /\ r.is_split
  /\ db.chunks # {}

\* the request has no Range header, or one that gives only a start
StartOnly ==
  \/ ~range_header.present
  \/ /\ range_header.present
     /\ range_header.first \in {Empty} \cup (0..Len(src))
     /\ range_header.second = Empty

\* C22: without a Range header the session covers 0 .. total size - 1, and
\* with only a start the end defaults to total size - 1; when that total is
\* the stored size and every message exists, the finished session has
\* yielded every byte from the start to the end of the object.
C22_DefaultRange ==
  (InSession /\ StartOnly) =>
    /\ start = IF range_header.present /\ range_header.first # Empty
               THEN range_header.first ELSE 0
    /\ end = r_file_size - 1
    /\ (/\ rpc = "done"
        /\ upc = "committed"
        /\ lost = {}
        /\ r_file_size = Len(src))
       => out = SourceRange(start, Len(src) - 1)

\* "Range: bytes=4-" on a split object of 7 bytes
C22_Witness ==
  /\ rpc = "done"
  /\ file_data.is_split
  /\ Len(src) = 2 * CHUNK_SIZE + 1
  /\ range_header = [present |-> TRUE, first |-> CHUNK_SIZE + 1,
                     second |-> Empty]
  /\ end = 2 * CHUNK_SIZE
  /\ out = SourceRange(CHUNK_SIZE + 1, 2 * CHUNK_SIZE)

\* C23: for a source of 0 bytes the uploader makes no transport put.
C23_NoPutForEmptySource ==
  Len(src) = 0 => puts = <<>>

\* C24: the transfers of one upload happen one at a time and in increasing
\* index order: a transfer in flight is the one of the chunk that follows
\* all chunks whose put has returned, there is one part file during it and
\* none between transfers, and every put adds exactly one payload.
C24_OneTransferAtATime ==
  /\ [](upc = "chunk_put" => (temp_exists /\ chunk_index = Len(puts)))
  /\ [](upc = "loop" => ~temp_exists)
  /\ [][puts' # puts =>
         /\ upc \in {"single_put", "chunk_put"}
         /\ Len(puts') = Len(puts) + 1
         /\ SubSeq(puts', 1, Len(puts)) = puts
         /\ upc = "chunk_put" =>
              /\ chunks_metadata'[Len(puts')].chunk_index = Len(puts)
              /\ puts'[Len(puts')][1] = Len(puts) * CHUNK_SIZE]_vars

\* the transfer of the third chunk is in flight, two have returned
C24_Witness ==
  /\ upc = "chunk_put"
  /\ chunk_index = 2
  /\ Len(puts) = 2
  /\ temp = Window(3, Len(src))
  /\ temp_exists

\* C25: no retry and no rollback: no window is put twice, and once a put
\* has failed the uploader makes no further put and leaves the payloads
\* already stored as they are.
C25_NoRetryNoRollback ==
  /\ [](\A i, j \in 1..Len(puts) : i < j => puts[i][1] < puts[j][1])
  /\ [][UploadFailed =>
         (puts' = puts /\ msgs' = msgs /\ upload_error' = upload_error)]_vars

\* the put of the third chunk failed; the two stored payloads are in place
C25_Witness ==
  /\ UploadFailed
  /\ chunk_index = 2
  /\ msgs = <<Window(1, Len(src)), Window(2, Len(src))>>
  /\ lost = {}
  /\ rpc = "rejected"

\* upload_large_file has ended, by return or by exception
UploadEnded == upc \in {"returned", "failed", "committed"}

\* C26: whenever upload_large_file has ended, by return or by any failure,
\* no temporary part file of the upload is left on disk.
C26_TempReleased ==
  UploadEnded => ~temp_exists

\* C28: the split loop performs at most ceil(file_size / CHUNK_SIZE)
\* iterations, also for a source that yields fewer bytes than measured.
C28_LoopBounded ==
  chunk_index <= CeilDiv(file_size, CHUNK_SIZE)

\* payload of the chunk whose stream was opened last
LastOpenedPayload ==
  msgs[chunks[opened[Len(opened)][1] + 1].message_id]

\* C27: a split read session is lazy and forward-only: the chunks are
\* opened in strictly increasing position, none twice, beginning no earlier
\* than the resolved start chunk, and a stream is opened only when no
\* stream is open and the stream opened before it has been exhausted.
C27_LazyForwardOnly ==
  /\ [](file_data.is_split =>
          /\ \A j, k \in 1..Len(opened) :
               j < k => opened[j][1] < opened[k][1]
          /\ opened # <<>> =>
               opened[1][1] >= Resolve(chunks, start).start_chunk_index)
  /\ [][(file_data.is_split /\ opened' # opened) =>
         /\ ~stream_open
         /\ stream_open'
         /\ Len(opened') = Len(opened) + 1
         /\ opened # <<>> => stream_pos >= Len(LastOpenedPayload)]_vars

\* a session over three chunks that began inside the first one
C27_Witness ==
  /\ rpc = "done"
  /\ file_data.is_split
  /\ opened = <<<<0, 1>>, <<1, 0>>, <<2, 0>>>>
  /\ skipped = {}
  /\ ~stream_open

\* C29: a media of the batch that comes after another one and whose own
\* transfer has succeeded can be recorded: the session it is about to be
\* added to accepts a flush, whatever happened to the media before it.
C29_LaterMediaRecordable ==
  \A t \in Tasks : (b_pc[t] = "add" /\ b_i[t] > 1) => sess[t].active

\* C30: when the transport delivers the stored payloads completely, the
\* body of a response to a request with a numeric Range header whose end
\* is not below its start has exactly Content-Length bytes.
C30_BodyMatchesContentLength ==
  (/\ rpc = "done"
   /\ upc = "committed"
   /\ lost = {}
   /\ NumericRange
   /\ start <= end
   /\ r_file_size = Len(src))
  => Len(out) = content_length

\* C21: of two read sessions on the same manifest, under every
\* interleaving, each one that reads a range inside the object yields
\* exactly the bytes of its own range; the chunk list handed to a session
\* and the committed manifest stay as the upload returned them; and a step
\* of one session changes nothing of the other.
C21_IndependentSessions ==
  /\ [](\A s \in Sessions :
          LET x == sessions[s]
          IN  /\ (/\ x.pc = "done"
                  /\ 0 <= x.start
                  /\ x.start <= x.end
                  /\ x.end < Len(src))
                 => x.out = SourceRange(x.start, x.end)
              /\ x.pc \notin {"idle", "rejected"} =>
                   /\ x.file_data.chunks = meta.chunks
                   /\ telegram_files[1].chunks = meta.chunks)
  /\ [][\A s, u \in Sessions :
          (s # u /\ sessions'[s] # sessions[s]) =>
            sessions'[u] = sessions[u]]_vars

\* session 1 has yielded the first byte of bytes 0..3 of a split object
\* while session 2 has finished bytes 2..3, across the chunk boundary
C21_Witness ==
  /\ Len(src) = CHUNK_SIZE + 1
  /\ sessions[1].pc = "streaming"
  /\ sessions[1].start = 0
  /\ sessions[1].end = CHUNK_SIZE
  /\ sessions[1].out = <<0>>
  /\ sessions[2].pc = "done"
  /\ sessions[2].start = CHUNK_SIZE - 1
  /\ sessions[2].out = <<CHUNK_SIZE - 1, CHUNK_SIZE>>

====
